---------------------------- MODULE Spec2Model ----------------------------
(***************************************************************************)
(* A state-machine model of edm::FastMerge (IOPool/Common/bin/FastMerge.cc) *)
(* The driver FastMerge validates its arguments, has every input file       *)
(* processed by ProcessInputFile::operator() and then calls                 *)
(* ProcessInputFile::merge.  One action models one block of statements of   *)
(* these functions; pc names the block that runs next.  The names of the    *)
(* input list are revealed to the model when the loop reaches them: filesIn *)
(* holds the part of the list consumed so far, and the list ends when the   *)
(* model takes the step that follows the loop.                              *)
(***************************************************************************)
EXTENDS Integers, Sequences, FiniteSets, TLC

\* Length of the longest input list explored.
MaxFiles == 3

(***************************************************************************)
(* Names                                                                   *)
(***************************************************************************)
\* The six trees, in the order operator() adds them and merge_chains merges them.
ChainOrder ==
  <<"RunMetaData", "Runs", "LuminosityBlockMetaData", "LuminosityBlocks",
    "EventMetaData", "Events">>

Partitions == {ChainOrder[i] : i \in 1..Len(ChainOrder)}

\* The five branches of the MetaData tree read by operator().
Fields ==
  {"ProductRegistry", "FileFormatVersion", "ModuleDescriptionMap",
   "ProcessHistoryMap", "ParameterSetMap"}

\* Keys of ProductRegistry::ProductList in the order of the std::map.
BranchOrder == <<"b1", "b2", "b3">>

NoFile == "none"

(***************************************************************************)
(* Generic helpers                                                         *)
(***************************************************************************)
EmptyMap == [k \in {} |-> "v1"]

RECURSIVE SeqSum(_)
SeqSum(s) == IF s = <<>> THEN 0 ELSE Head(s) + SeqSum(Tail(s))

RECURSIVE Flatten(_)
Flatten(ss) == IF ss = <<>> THEN <<>> ELSE Head(ss) \o Flatten(Tail(ss))

Range(s) == {s[i] : i \in 1..Len(s)}

SelectEv(s, e) == SelectSeq(s, LAMBDA x : x.ev = e)

(***************************************************************************)
(* The files the input names can denote.  A is a complete file; every other *)
(* file differs from A in one respect.                                      *)
(***************************************************************************)
Rec(r, i, s) == [run |-> r, id |-> i, src |-> s]

Desc(t, k, pcid, psid) ==
  [type |-> t, kind |-> k, pcids |-> pcid, psids |-> psid]

RegA ==
  [b1 |-> Desc("t1", "InEvent", {"p1"}, {"s1"}),
   b2 |-> Desc("t2", "InLumi", {"p1"}, {"s1"})]

\* Two events, one luminosity block and one run, all from source s.
TreesOf(s) ==
  [RunMetaData |-> <<Rec(1, 1, s)>>,
   Runs |-> <<Rec(1, 1, s)>>,
   LuminosityBlockMetaData |-> <<Rec(1, 1, s)>>,
   LuminosityBlocks |-> <<Rec(1, 1, s)>>,
   EventMetaData |-> <<Rec(1, 1, s), Rec(1, 2, s)>>,
   Events |-> <<Rec(1, 1, s), Rec(1, 2, s)>>]

FileA ==
  [path |-> "A.root", usable |-> TRUE, hasMetaTree |-> TRUE, fields |-> Fields,
   ffv |-> 1, reg |-> RegA,
   md |-> [m1 |-> "v1"],
   ph |-> [h1 |-> "v1"],
   ps |-> [s1 |-> "v1"],
   trees |-> TreesOf("A")]

\* Same registry as A, other records, other dictionary keys, and another
\* value under a key A has too.
FileB ==
  [FileA EXCEPT !.path = "B.root",
     !.md = [m1 |-> "v2", m2 |-> "v1"],
     !.ph = [h1 |-> "v2", h2 |-> "v1"],
     !.ps = [s1 |-> "v2", s2 |-> "v1"],
     !.trees = [RunMetaData |-> <<Rec(2, 1, "B")>>,
                Runs |-> <<Rec(2, 1, "B")>>,
                LuminosityBlockMetaData |-> <<Rec(2, 1, "B")>>,
                LuminosityBlocks |-> <<Rec(2, 1, "B")>>,
                EventMetaData |-> <<Rec(2, 1, "B")>>,
                Events |-> <<Rec(2, 1, "B")>>]]

Lacking(f) == [FileA EXCEPT !.path = "N.root", !.fields = Fields \ {f}]

FileNames ==
  {"A", "B", "M", "E", "V", "Z", "T", "P", "X", "D", "G",
   "L", "Q", "K", "R", "Npr", "Nfv", "Nmd", "Nph", "Nps"}

FileTable ==
  [A |-> FileA,
   B |-> FileB,
   \* cannot be opened: a physical name, and an unresolved logical name
   M |-> [FileA EXCEPT !.path = "M.root", !.usable = FALSE],
   E |-> [FileA EXCEPT !.path = "", !.usable = FALSE],
   \* other file format versions
   V |-> [FileA EXCEPT !.path = "V.root", !.ffv = 2],
   Z |-> [FileA EXCEPT !.path = "Z.root", !.ffv = 0],
   \* registries: another data type, other IDs, one more branch, several IDs
   T |-> [FileA EXCEPT !.path = "T.root", !.reg.b1.type = "t9"],
   P |-> [FileA EXCEPT !.path = "P.root", !.reg.b1.pcids = {"p2"},
                       !.reg.b1.psids = {"s2"}, !.ps = [s2 |-> "v1"]],
   X |-> [FileA EXCEPT !.path = "X.root",
            !.reg = [b1 |-> RegA.b1, b2 |-> RegA.b2,
                     b3 |-> Desc("t3", "InEvent", {"p1"}, {"s1"})]],
   D |-> [FileA EXCEPT !.path = "D.root", !.reg.b2.pcids = {"p1", "p2"},
                       !.reg.b2.psids = {"s1", "s2"},
                       !.ps = [s1 |-> "v1", s2 |-> "v1"]],
   \* no MetaData tree
   G |-> [FileA EXCEPT !.path = "G.root", !.hasMetaTree = FALSE],
   \* trees that are not in the file
   L |-> [FileA EXCEPT !.path = "L.root",
            !.trees = [RunMetaData |-> <<Rec(1, 1, "L")>>,
                       Runs |-> <<Rec(1, 1, "L")>>,
                       EventMetaData |-> <<Rec(1, 1, "L")>>,
                       Events |-> <<Rec(1, 1, "L")>>]],
   Q |-> [FileA EXCEPT !.path = "Q.root",
            !.trees = [RunMetaData |-> <<Rec(1, 1, "Q")>>,
                       Runs |-> <<Rec(1, 1, "Q")>>,
                       LuminosityBlockMetaData |-> <<Rec(1, 1, "Q")>>,
                       LuminosityBlocks |-> <<Rec(1, 1, "Q")>>,
                       Events |-> <<Rec(1, 1, "Q")>>]],
   K |-> [FileA EXCEPT !.path = "K.root",
            !.trees = [RunMetaData |-> <<Rec(1, 1, "K")>>,
                       Runs |-> <<Rec(1, 1, "K")>>,
                       LuminosityBlockMetaData |-> <<Rec(1, 1, "K")>>,
                       LuminosityBlocks |-> <<Rec(1, 1, "K")>>,
                       EventMetaData |-> <<Rec(1, 1, "K")>>]],
   R |-> [FileA EXCEPT !.path = "R.root",
            !.trees = [LuminosityBlockMetaData |-> <<Rec(1, 1, "R")>>,
                       LuminosityBlocks |-> <<Rec(1, 1, "R")>>,
                       EventMetaData |-> <<Rec(1, 1, "R")>>,
                       Events |-> <<Rec(1, 1, "R")>>]],
   \* a branch of the MetaData tree that cannot be read
   Npr |-> Lacking("ProductRegistry"),
   Nfv |-> Lacking("FileFormatVersion"),
   Nmd |-> Lacking("ModuleDescriptionMap"),
   Nph |-> Lacking("ProcessHistoryMap"),
   Nps |-> Lacking("ParameterSetMap")]

File(n) == FileTable[n]

\* What a file must offer for the merge of it to be possible at all: it
\* opens, its MetaData tree has the five branches, its format version is
\* supported and it holds the six trees.
Complete(f) ==
  /\ f.usable /\ f.hasMetaTree /\ f.fields = Fields
  /\ f.ffv >= 1 /\ DOMAIN f.trees = Partitions

(***************************************************************************)
(* Utility functions of the anonymous namespace                            *)
(***************************************************************************)
\* Faulty variants of openTFile: noThrow ignored; the empty name not told
\* apart; noThrow taken as set; under noThrow a handle for a file that is
\* not there.
openTFile_AlwaysThrows(filename, usable, noThrow) ==
  IF usable THEN "handle"
  ELSE IF filename = "" THEN "LogicalFileNameNotFound"
  ELSE "RootFailure"

openTFile_NoEmptyCheck(filename, usable, noThrow) ==
  IF usable THEN "handle"
  ELSE IF noThrow THEN "absent"
  ELSE "RootFailure"

openTFile_NeverThrows(filename, usable, noThrow) ==
  IF usable THEN "handle" ELSE "absent"

openTFile_HandleForAbsent(filename, usable, noThrow) ==
  IF usable \/ noThrow THEN "handle"
  ELSE IF filename = "" THEN "LogicalFileNameNotFound"
  ELSE "RootFailure"

\* openTFile: "handle", "absent" (a null pointer) or the exception thrown.
openTFile(filename, usable, noThrow) ==
  IF usable THEN "handle"
  ELSE IF noThrow THEN "absent"
  ELSE IF filename = "" THEN "LogicalFileNameNotFound"
  ELSE "RootFailure"

\* Line 60: gErrorIgnoreLevel while TFile::Open runs.
ErrorIgnoreLevelDuring(level, noThrow) == IF noThrow THEN "kBreak" ELSE level

\* Faulty variant: the level is not set back after TFile::Open.
ErrorIgnoreLevelAfter_NotSetBack(level, noThrow) ==
  IF noThrow THEN "kBreak" ELSE level

\* Line 62: gErrorIgnoreLevel when openTFile returns or throws.
ErrorIgnoreLevelAfter(level, noThrow) == IF noThrow THEN "kError" ELSE level

\* getTTreeOrThrow on the MetaData tree: "" or the exception thrown.
getTTreeOrThrow(present) == IF present THEN "" ELSE "RootFailure"

\* Faulty variant of readFromBranch: a branch that cannot be read is let pass.
readFromBranch_Tolerant(f, field) == ""

\* readFromBranch: "" or the exception thrown.
readFromBranch(f, field) == IF field \in f.fields THEN "" ELSE "BadInputFile"

\* getBranchNamesFromRegistry: the names of the InEvent branches, appended
\* to names in the order of the product list.
getBranchNamesFromRegistry(reg, names) ==
  names \o SelectSeq(BranchOrder,
                     LAMBDA b : b \in DOMAIN reg /\ reg[b].kind = "InEvent")

\* The format version of the running program (getFileFormatVersion()).
CurrentFileFormatVersion == 1

\* Faulty variant of checkStrictMergeCriteria: the IDs are not counted.
checkStrictMergeCriteria_VersionOnly(reg, fileFormatVersion, matchMode) ==
  IF fileFormatVersion < 1 THEN "MismatchedInput" ELSE ""

\* checkStrictMergeCriteria: "" or the exception thrown.
checkStrictMergeCriteria(reg, fileFormatVersion, matchMode) ==
  IF fileFormatVersion < 1 THEN "MismatchedInput"
  ELSE IF matchMode = "Permissive" THEN ""
  ELSE IF \E b \in DOMAIN reg :
            Cardinality(reg[b].pcids) # 1 \/ Cardinality(reg[b].psids) # 1
    THEN "MismatchedInput"
  ELSE ""

\* Faulty variant of the first file's version check: version 0 is let pass.
FirstVersionError_AllowsZero(v) == IF v < 0 THEN "MismatchedInput" ELSE ""

\* The check of the first file's format version (operator(), line 527).
FirstVersionError(v) == IF v < 1 THEN "MismatchedInput" ELSE ""

\* Faulty variant of the version comparison: never a mismatch.
VersionMismatch_Never(current, first) == ""

\* The comparison of a later file's format version (operator(), line 548).
VersionMismatch(current, first) ==
  IF current # first THEN "MismatchedInput" ELSE ""

\* Faulty variant of the test of mergeInfo: the differences are not looked at.
MergeInfoError_Ignored(mergeInfo) == ""

\* The test of what ProductRegistry::merge returns (operator(), lines
\* 543-546): the differences found, empty when there are none.
MergeInfoError(mergeInfo) == IF mergeInfo # {} THEN "MismatchedInput" ELSE ""

\* Faulty variant of the choice of the registry buffer: always the member.
RegistryBuffer_AlwaysMember(first) == "firstPreg_"

\* The object the registry of the current file is read into (line 486).
RegistryBuffer(first) ==
  IF first THEN "firstPreg_" ELSE "currentProductRegistryBuffer"

\* Faulty variant: the names of every file go to the member.
BranchNamesBuffer_AlwaysMember(first) == "branchNames_"

\* Lines 492-493: the vector the branch names of the file are appended to.
BranchNamesBuffer(first) ==
  IF first THEN "branchNames_" ELSE "currentBranchNamesBuffer"

NullChain == [exists |-> FALSE, segs |-> <<>>]

\* makeTChainOrThrow: a null pointer when the tree is not in the file.
makeTChainOrThrow(name, curfile) ==
  IF name \in DOMAIN curfile.trees
    THEN [exists |-> TRUE, segs |-> <<>>]
    ELSE NullChain

\* TChain::GetEntries.
GetEntries(chain) == SeqSum([i \in 1..Len(chain.segs) |-> chain.segs[i].count])

\* TChain::AddFile(filename, -1): the file is opened and the number of
\* entries of the tree is read; 0 is returned when the tree is not there.
AddFileOk(name, fname) == name \in DOMAIN File(fname).trees

\* Faulty variant of AddFile: the file is not added.
AddFile_NotAdded(chain, name, fname) == chain

AddFile(chain, name, fname) ==
  [chain EXCEPT !.segs =
     Append(@, [file |-> fname, count |-> Len(File(fname).trees[name])])]

\* Faulty variant of the six calls: a chain whose tree is not in the file is
\* passed over instead of the exception being thrown.
addFilenamesToTChains_PassesOver(chs, fname, i) ==
  [chains |-> [p \in DOMAIN chs |->
                 IF chs[p].exists /\ AddFileOk(p, fname)
                   THEN AddFile(chs[p], p, fname) ELSE chs[p]],
   err |-> ""]

\* The six guarded addFilenameToTChain calls of operator(), from the i-th
\* on: the chains afterwards, and the exception thrown by the first
\* AddFile that fails.
RECURSIVE addFilenamesToTChains(_, _, _)
addFilenamesToTChains(chs, fname, i) ==
  IF i > Len(ChainOrder) THEN [chains |-> chs, err |-> ""]
  ELSE LET name == ChainOrder[i] IN
       IF ~chs[name].exists THEN addFilenamesToTChains(chs, fname, i + 1)
       ELSE IF ~AddFileOk(name, fname) THEN [chains |-> chs, err |-> "RootFailure"]
       ELSE addFilenamesToTChains(
              [chs EXCEPT ![name] = AddFile(chs[name], name, fname)],
              fname, i + 1)

\* Faulty variant of mergeTChain: what TChain::Merge returns is not tested.
mergeTChain_ResultIgnored(merged) == ""

\* mergeTChain: "" or the exception thrown; TChain::Merge returns 0 when it
\* fails.
mergeTChain(merged) == IF merged = 0 THEN "RootFailure" ELSE ""

\* Faulty variants of the order of merge_chains: the data tree of runs and
\* of luminosity blocks before its metadata tree; the Events chain left out.
MergeOrder_DataFirst ==
  <<"Runs", "RunMetaData", "LuminosityBlocks", "LuminosityBlockMetaData",
    "EventMetaData", "Events">>

MergeOrder_WithoutEvents ==
  <<"RunMetaData", "Runs", "LuminosityBlockMetaData", "LuminosityBlocks",
    "EventMetaData">>

\* The order in which merge_chains merges the chains (lines 767-788).
MergeOrder ==
  <<"RunMetaData", "Runs", "LuminosityBlockMetaData", "LuminosityBlocks",
    "EventMetaData", "Events">>

\* merge_chains deletes every chain it has merged but the last of them.
ReleasedAfterMerge(name) == name # "Events"

\* TChain::Merge with option "fast": the entries of the files of the chain,
\* file after file.
MergedRecords(chain, name) ==
  Flatten([i \in 1..Len(chain.segs) |->
             SubSeq(File(chain.segs[i].file).trees[name], 1, chain.segs[i].count)])

\* Faulty variants of the insertion: nothing is inserted; the value of the
\* later file wins.
MapInsertRange_Nothing(map, other) == map

MapInsertRange_Overwrite(map, other) ==
  [k \in DOMAIN map \cup DOMAIN other |->
     IF k \in DOMAIN other THEN other[k] ELSE map[k]]

\* std::map::insert(first, last): a key already in the map keeps its value.
MapInsertRange(map, other) ==
  [k \in DOMAIN map \cup DOMAIN other |->
     IF k \in DOMAIN map THEN map[k] ELSE other[k]]

\* Faulty variant of the loop: nothing is inserted.
InsertNewParameterSetBlobs_None(blobs, current) == blobs

\* The loop of operator() over currentParameterSetBlobs (lines 601-608).
InsertNewParameterSetBlobs(blobs, current) ==
  [k \in DOMAIN blobs \cup DOMAIN current |->
     IF k \in DOMAIN blobs THEN blobs[k] ELSE current[k]]

(***************************************************************************)
(* ProductRegistry::merge(other, fname, matchMode) is not part of these     *)
(* sources; it is modelled from the description of the reconciliation: no   *)
(* branch that the baseline lacks, equal data types and branch types,       *)
(* Strict: descriptors equal field for field, Permissive: ID sets united.   *)
(***************************************************************************)
RegistryDifferences(base, other, matchMode) ==
  {b \in DOMAIN other :
     \/ b \notin DOMAIN base
     \/ /\ b \in DOMAIN base
        /\ \/ other[b].type # base[b].type
           \/ other[b].kind # base[b].kind
           \/ matchMode = "Strict" /\ other[b] # base[b]}
  \cup (IF matchMode = "Strict" THEN DOMAIN base \ DOMAIN other ELSE {})

RegistryMerge(base, other, matchMode) ==
  IF matchMode # "Permissive" THEN base
  ELSE [b \in DOMAIN base |->
          IF b \in DOMAIN other /\ b \notin RegistryDifferences(base, other, matchMode)
            THEN [base[b] EXCEPT !.pcids = @ \cup other[b].pcids,
                                 !.psids = @ \cup other[b].psids]
            ELSE base[b]]

(***************************************************************************)
(* State                                                                   *)
(***************************************************************************)
VARIABLES
  fileOut,            \* FastMerge's argument fileOut ("" when empty)
  beStrict,           \* FastMerge's argument beStrict
  skipMissing,        \* FastMerge's argument skipMissing
  noInput,            \* filesIn.empty()
  filesIn,            \* the elements of filesIn the loop has reached
  pc,                 \* the block that runs next, or Done, Failed, Crashed
  error,              \* category of the cms::Exception that left FastMerge
  firstFile,          \* firstFile_
  fileMetaData,       \* fileMetaData_: the file whose MetaData tree it is
  firstPreg,          \* firstPreg_
  branchNames,        \* branchNames_
  fileFormatVersion,  \* fileFormatVersion_.value_
  parameterSetBlobs,  \* parameterSetBlobs_
  processHistories,   \* processHistories_
  moduleDescriptions, \* moduleDescriptions_
  chains,             \* the six auto_ptr<TChain> members
  inTokens,           \* inTokens_
  currentFile,        \* the auto_ptr<TFile> currentFile of operator()
  cur,                \* the other locals of operator()
  out,                \* the output file and the locals of merge()
  log,                \* the calls made on the JobReport service, in order
  io,                 \* catalogue lookups and TFile::Open calls, in order
  lastOpen,           \* arguments and result of the last openTFile call
  ioFault,            \* whether the storage layer has failed a write
  gErrorIgnoreLevel   \* ROOT's global gErrorIgnoreLevel

vars ==
  <<fileOut, beStrict, skipMissing, noInput, filesIn, pc, error, firstFile,
    fileMetaData, firstPreg, branchNames, fileFormatVersion, parameterSetBlobs,
    processHistories, moduleDescriptions, chains, inTokens, currentFile, cur,
    out, log, io, lastOpen, ioFault, gErrorIgnoreLevel>>

inputVars == <<fileOut, beStrict, skipMissing, noInput>>

sessionVars ==
  <<firstFile, fileMetaData, firstPreg, branchNames, fileFormatVersion,
    parameterSetBlobs, processHistories, moduleDescriptions, chains, inTokens>>

\* Faulty variant: beStrict is not looked at.
matchMode_AlwaysPermissive == "Permissive"

\* Line 817: the match mode handed to ProcessInputFile.
matchMode == IF beStrict THEN "Strict" ELSE "Permissive"

Ev(e, f, t, n, names, toks) ==
  [ev |-> e, file |-> f, tok |-> t, n |-> n, names |-> names, toks |-> toks]

NoLocals ==
  [fname |-> NoFile, first |-> FALSE, reg |-> EmptyMap, names |-> <<>>, token |-> 0,
   ffv |-> -1, md |-> EmptyMap, ph |-> EmptyMap, ps |-> EmptyMap, nEvents |-> 0]

NoMeta ==
  [written |-> FALSE, ffv |-> -1, reg |-> EmptyMap, md |-> EmptyMap,
   ph |-> EmptyMap, ps |-> EmptyMap]

NoTree == [present |-> FALSE, recs |-> <<>>]

NoOutput ==
  [open |-> FALSE, token |-> 0, meta |-> NoMeta,
   trees |-> [p \in Partitions |-> NoTree], merged |-> 0, materialized |-> <<>>,
   indexed |-> {}, nEvents |-> 0]

NoOpen ==
  [filename |-> NoFile, usable |-> FALSE, noThrow |-> FALSE, result |-> "",
   during |-> ""]

\* Values an indirection through a null pointer can yield when it does not
\* end the process.
Garbage == {0, 1}

Init ==
  /\ fileOut \in {"", "out.root"}
  /\ beStrict \in BOOLEAN
  /\ skipMissing \in BOOLEAN
  /\ noInput \in BOOLEAN
  /\ filesIn = <<>>
  /\ pc = "start"
  /\ error = ""
  /\ firstFile = NoFile
  /\ fileMetaData = NoFile
  /\ firstPreg = EmptyMap
  /\ branchNames = <<>>
  /\ fileFormatVersion = -1
  /\ parameterSetBlobs = EmptyMap
  /\ processHistories = EmptyMap
  /\ moduleDescriptions = EmptyMap
  /\ chains = [p \in Partitions |-> NullChain]
  /\ inTokens = <<>>
  /\ currentFile = NoFile
  /\ cur = NoLocals
  /\ out = NoOutput
  /\ log = <<>>
  /\ io = <<>>
  /\ lastOpen = NoOpen
  /\ ioFault = FALSE
  /\ gErrorIgnoreLevel \in {"kUnset", "kError"}

\* Faulty variants of the way an exception leaves: it is caught and the loop
\* goes on; the file of operator() is left open.
Throw_Continue(e) == pc' = "loop" /\ error' = e /\ currentFile' = NoFile

Throw_LeaksFile(e) == pc' = "Failed" /\ error' = e /\ currentFile' = currentFile

\* An exception leaves operator() and FastMerge; currentFile is destroyed.
Throw(e) == pc' = "Failed" /\ error' = e /\ currentFile' = NoFile

(***************************************************************************)
(* FastMerge, lines 800-832                                                *)
(***************************************************************************)
\* Faulty variant of the argument checks: the input list is not looked at.
ArgumentError_OutputOnly(output, empty) ==
  IF output = "" THEN "BadArgument" ELSE ""

ArgumentError(output, empty) ==
  IF output = "" THEN "BadArgument"
  ELSE IF empty THEN "BadArgument"
  ELSE ""

ValidateArguments ==
  /\ pc = "start"
  /\ IF ArgumentError(fileOut, noInput) # ""
       THEN /\ Throw(ArgumentError(fileOut, noInput))
            /\ UNCHANGED <<io, gErrorIgnoreLevel>>
       ELSE /\ pc' = "loop"
            /\ gErrorIgnoreLevel' = "kError"
            /\ io' = Append(io, "InputFileCatalog")
            /\ UNCHANGED <<error, currentFile>>
  /\ UNCHANGED <<inputVars, filesIn, sessionVars, cur, out, log, lastOpen, ioFault>>

(***************************************************************************)
(* ProcessInputFile::operator()                                            *)
(***************************************************************************)
\* Faulty variant: the first file is the first element of the list.
IsFirst_FirstOfList(held) == filesIn = <<>>

\* Line 477: bool first = (firstFile_.get() == 0).
IsFirst(held) == held = NoFile

\* Lines 836 and 472-477: the loop reaches the next name; openTFile.
OpenInputFile ==
  /\ pc = "loop"
  /\ ~noInput
  /\ Len(filesIn) < MaxFiles
  /\ \E f \in FileNames :
       LET r == openTFile(File(f).path, File(f).usable, skipMissing) IN
       /\ filesIn' = Append(filesIn, f)
       /\ io' = Append(io, "TFile::Open")
       /\ lastOpen' = [filename |-> File(f).path, usable |-> File(f).usable,
                       noThrow |-> skipMissing, result |-> r,
                       during |-> ErrorIgnoreLevelDuring(gErrorIgnoreLevel,
                                                         skipMissing)]
       /\ gErrorIgnoreLevel' = ErrorIgnoreLevelAfter(gErrorIgnoreLevel, skipMissing)
       /\ cur' = [NoLocals EXCEPT !.fname = f, !.first = IsFirst(firstFile)]
       /\ CASE r = "handle" ->
                 /\ currentFile' = f
                 /\ pc' = "registry"
                 /\ UNCHANGED <<error, log>>
            [] r = "absent" ->
                 /\ log' = Append(log, Ev("reportSkippedFile", f, 0, 0, <<>>, <<>>))
                 /\ currentFile' = NoFile
                 /\ pc' = "loop"
                 /\ UNCHANGED error
            [] OTHER ->
                 /\ Throw(r)
                 /\ UNCHANGED log
  /\ UNCHANGED <<inputVars, sessionVars, out, ioFault>>

\* Lines 482-494: the MetaData tree, the registry and the branch names; the
\* first file's are read into firstPreg_ and branchNames_.
ReadProductRegistry ==
  /\ pc = "registry"
  /\ LET f == File(cur.fname)
         e == IF getTTreeOrThrow(f.hasMetaTree) # ""
                THEN getTTreeOrThrow(f.hasMetaTree)
                ELSE readFromBranch(f, "ProductRegistry") IN
     IF e # ""
       THEN /\ Throw(e)
            /\ UNCHANGED <<firstPreg, branchNames, cur>>
       ELSE /\ pc' = "report"
            /\ firstPreg' = IF RegistryBuffer(cur.first) = "firstPreg_"
                               THEN f.reg ELSE firstPreg
            /\ branchNames' = IF BranchNamesBuffer(cur.first) = "branchNames_"
                                 THEN getBranchNamesFromRegistry(f.reg, branchNames)
                                 ELSE branchNames
            /\ cur' = [cur EXCEPT
                        !.reg = IF RegistryBuffer(cur.first) = "firstPreg_"
                                  THEN @ ELSE f.reg,
                        !.names = IF BranchNamesBuffer(cur.first) = "branchNames_"
                                    THEN @
                                    ELSE getBranchNamesFromRegistry(f.reg, <<>>)]
            /\ UNCHANGED <<error, currentFile>>
  /\ UNCHANGED <<inputVars, filesIn, firstFile, fileMetaData, fileFormatVersion,
                 parameterSetBlobs, processHistories, moduleDescriptions, chains,
                 inTokens, out, log, io, lastOpen, gErrorIgnoreLevel, ioFault>>

\* Faulty variant: the opening of the file is not reported here.
ReportInputFileOpened_NotYet ==
  /\ pc = "report"
  /\ pc' = "version"
  /\ UNCHANGED <<inputVars, filesIn, error, sessionVars, currentFile, cur, out,
                 log, io, lastOpen, gErrorIgnoreLevel, ioFault>>

\* Lines 501-510: inputFileOpened, before any test of compatibility.
ReportInputFileOpened ==
  /\ pc = "report"
  /\ LET t == Len(SelectEv(log, "inputFileOpened")) + 1 IN
     /\ log' = Append(log, Ev("inputFileOpened", cur.fname, t, 0,
                              IF BranchNamesBuffer(cur.first) = "branchNames_"
                                THEN branchNames ELSE cur.names,
                              <<>>))
     /\ inTokens' = Append(inTokens, t)
     /\ cur' = [cur EXCEPT !.token = t]
  /\ pc' = "version"
  /\ UNCHANGED <<inputVars, filesIn, error, firstFile, fileMetaData, firstPreg,
                 branchNames, fileFormatVersion, parameterSetBlobs,
                 processHistories, moduleDescriptions, chains, currentFile, out,
                 io, lastOpen, gErrorIgnoreLevel, ioFault>>

\* Lines 518-521.
ReadFileFormatVersion ==
  /\ pc = "version"
  /\ LET e == readFromBranch(File(cur.fname), "FileFormatVersion") IN
     IF e # ""
       THEN Throw(e) /\ cur' = cur
       ELSE /\ cur' = [cur EXCEPT !.ffv = File(cur.fname).ffv]
            /\ pc' = "check"
            /\ UNCHANGED <<error, currentFile>>
  /\ UNCHANGED <<inputVars, filesIn, sessionVars, out, log, io, lastOpen,
                 gErrorIgnoreLevel, ioFault>>

\* Lines 524-539: the first file.
CheckFirstFile ==
  /\ pc = "check"
  /\ cur.first
  /\ fileMetaData' = cur.fname
  /\ fileFormatVersion' = cur.ffv
  /\ IF FirstVersionError(cur.ffv) # ""
       THEN Throw(FirstVersionError(cur.ffv)) /\ chains' = chains
       ELSE /\ chains' = [p \in Partitions |-> makeTChainOrThrow(p, File(cur.fname))]
            /\ LET e == checkStrictMergeCriteria(firstPreg, CurrentFileFormatVersion,
                                                 matchMode) IN
               IF e # "" THEN Throw(e)
               ELSE pc' = "dicts" /\ UNCHANGED <<error, currentFile>>
  /\ UNCHANGED <<inputVars, filesIn, firstFile, firstPreg, branchNames,
                 parameterSetBlobs, processHistories, moduleDescriptions,
                 inTokens, cur, out, log, io, lastOpen, gErrorIgnoreLevel, ioFault>>

\* Lines 540-556: a later file.
CheckLaterFile ==
  /\ pc = "check"
  /\ ~cur.first
  /\ LET current == IF RegistryBuffer(cur.first) = "firstPreg_"
                       THEN firstPreg ELSE cur.reg
         mergeInfo == RegistryDifferences(firstPreg, current, matchMode) IN
     /\ firstPreg' = RegistryMerge(firstPreg, current, matchMode)
     /\ IF MergeInfoError(mergeInfo) # ""
          THEN Throw(MergeInfoError(mergeInfo))
          ELSE IF VersionMismatch(cur.ffv, fileFormatVersion) # ""
            THEN Throw(VersionMismatch(cur.ffv, fileFormatVersion))
            ELSE pc' = "dicts" /\ UNCHANGED <<error, currentFile>>
  /\ UNCHANGED <<inputVars, filesIn, firstFile, fileMetaData, branchNames,
                 fileFormatVersion, parameterSetBlobs, processHistories,
                 moduleDescriptions, chains, inTokens, cur, out, log, io,
                 lastOpen, gErrorIgnoreLevel, ioFault>>

\* Lines 558-582: the three maps, in this order; the first file's are read
\* into the members.  The result of the reads up to the first that fails.
RECURSIVE readMaps(_, _, _)
readMaps(f, todo, got) ==
  IF todo = <<>> THEN [got |-> got, err |-> ""]
  ELSE IF readFromBranch(f, Head(todo)) # ""
    THEN [got |-> got, err |-> readFromBranch(f, Head(todo))]
  ELSE readMaps(f, Tail(todo), got \cup {Head(todo)})

ReadDictionaries ==
  /\ pc = "dicts"
  /\ LET f == File(cur.fname)
         r == readMaps(f, <<"ModuleDescriptionMap", "ProcessHistoryMap",
                            "ParameterSetMap">>, {})
         md == IF "ModuleDescriptionMap" \in r.got THEN f.md ELSE EmptyMap
         ph == IF "ProcessHistoryMap" \in r.got THEN f.ph ELSE EmptyMap
         ps == IF "ParameterSetMap" \in r.got THEN f.ps ELSE EmptyMap IN
     /\ IF cur.first
          THEN /\ moduleDescriptions' = md
               /\ processHistories' = ph
               /\ parameterSetBlobs' = ps
               /\ cur' = cur
          ELSE /\ cur' = [cur EXCEPT !.md = md, !.ph = ph, !.ps = ps]
               /\ UNCHANGED <<moduleDescriptions, processHistories, parameterSetBlobs>>
     /\ IF r.err # "" THEN Throw(r.err)
        ELSE pc' = "record" /\ UNCHANGED <<error, currentFile>>
  /\ UNCHANGED <<inputVars, filesIn, firstFile, fileMetaData, firstPreg,
                 branchNames, fileFormatVersion, chains, inTokens, out, log, io,
                 lastOpen, gErrorIgnoreLevel, ioFault>>

\* Lines 584-610: the first file is kept open in firstFile_; the maps of a
\* later file are added to the members.
RecordFile ==
  /\ pc = "record"
  /\ IF cur.first
       THEN /\ firstFile' = currentFile
            /\ currentFile' = NoFile
            /\ UNCHANGED <<moduleDescriptions, processHistories, parameterSetBlobs>>
       ELSE /\ moduleDescriptions' = MapInsertRange(moduleDescriptions, cur.md)
            /\ processHistories' = MapInsertRange(processHistories, cur.ph)
            /\ parameterSetBlobs' = InsertNewParameterSetBlobs(parameterSetBlobs, cur.ps)
            /\ UNCHANGED <<firstFile, currentFile>>
  /\ pc' = "chains"
  /\ UNCHANGED <<inputVars, filesIn, error, fileMetaData, firstPreg, branchNames,
                 fileFormatVersion, chains, inTokens, cur, out, log, io,
                 lastOpen, gErrorIgnoreLevel,
                 ioFault>>

\* Lines 611-621.  eventMetaData_ is dereferenced without a test, before
\* and after the additions: with a null pointer the behaviour is undefined.
AddToChains ==
  /\ pc = "chains"
  /\ LET r == addFilenamesToTChains(chains, cur.fname, 1) IN
     IF chains["EventMetaData"].exists
       THEN /\ chains' = r.chains
            /\ IF r.err # ""
                 THEN Throw(r.err) /\ cur' = cur
                 ELSE /\ cur' = [cur EXCEPT !.nEvents =
                                   GetEntries(r.chains["EventMetaData"])
                                     - GetEntries(chains["EventMetaData"])]
                      /\ pc' = "close"
                      /\ UNCHANGED <<error, currentFile>>
       ELSE \/ /\ pc' = "Crashed"
               /\ UNCHANGED <<error, currentFile, chains, cur>>
            \/ /\ chains' = r.chains
               /\ IF r.err # ""
                    THEN Throw(r.err) /\ cur' = cur
                    ELSE \/ /\ pc' = "Crashed"
                            /\ UNCHANGED <<error, currentFile, cur>>
                         \/ \E g \in Garbage :
                              /\ cur' = [cur EXCEPT !.nEvents = g]
                              /\ pc' = "close"
                              /\ UNCHANGED <<error, currentFile>>
  /\ UNCHANGED <<inputVars, filesIn, firstFile, fileMetaData, firstPreg,
                 branchNames, fileFormatVersion, parameterSetBlobs,
                 processHistories, moduleDescriptions, inTokens, out, log, io,
                 lastOpen, gErrorIgnoreLevel, ioFault>>

\* Lines 628-630; operator() returns and currentFile is destroyed.
ReportInputFileClosed ==
  /\ pc = "close"
  /\ log' = log \o <<Ev("overrideEventsRead", cur.fname, cur.token, cur.nEvents,
                        <<>>, <<>>),
                     Ev("inputFileClosed", cur.fname, cur.token, 0, <<>>, <<>>)>>
  /\ currentFile' = NoFile
  /\ pc' = "loop"
  /\ UNCHANGED <<inputVars, filesIn, error, sessionVars, cur, out, io,
                 lastOpen, gErrorIgnoreLevel,
                 ioFault>>

(***************************************************************************)
(* ProcessInputFile::merge                                                 *)
(***************************************************************************)
\* Lines 837 and 643: the loop is over; the output file is created.
OpenOutputFile ==
  /\ pc = "loop"
  /\ noInput \/ Len(filesIn) >= 1
  /\ \E usable \in BOOLEAN :
       LET r == openTFile(fileOut, usable, FALSE) IN
       /\ io' = Append(io, "TFile::Open")
       /\ lastOpen' = [filename |-> fileOut, usable |-> usable,
                       noThrow |-> FALSE, result |-> r,
                       during |-> ErrorIgnoreLevelDuring(gErrorIgnoreLevel, FALSE)]
       /\ gErrorIgnoreLevel' = ErrorIgnoreLevelAfter(gErrorIgnoreLevel, FALSE)
       /\ IF r = "handle"
            THEN /\ out' = [out EXCEPT !.open = TRUE]
                 /\ pc' = "outopened"
                 /\ UNCHANGED <<error, currentFile, ioFault>>
            ELSE /\ Throw(r)
                 /\ ioFault' = TRUE
                 /\ out' = out
  /\ UNCHANGED <<inputVars, filesIn, sessionVars, cur, log>>

\* Lines 647-655.
ReportOutputFileOpened ==
  /\ pc = "outopened"
  /\ log' = Append(log, Ev("outputFileOpened", fileOut, 1, 0, branchNames, <<>>))
  /\ out' = [out EXCEPT !.token = 1]
  /\ pc' = "meta"
  /\ UNCHANGED <<inputVars, filesIn, error, sessionVars, currentFile, cur, io,
                 lastOpen, gErrorIgnoreLevel, ioFault>>

\* Lines 661-679.  fileMetaDataTree() is dereferenced without a test: when
\* no input file was read the behaviour is undefined.
WriteFileMetaData ==
  /\ pc = "meta"
  /\ \/ /\ fileMetaData = NoFile
        /\ pc' = "Crashed"
        /\ out' = out
     \/ /\ out' = [out EXCEPT !.meta =
                     [written |-> TRUE, ffv |-> fileFormatVersion,
                      reg |-> firstPreg, md |-> moduleDescriptions,
                      ph |-> processHistories, ps |-> parameterSetBlobs]]
        /\ pc' = "mergechains"
  /\ UNCHANGED <<inputVars, filesIn, error, sessionVars, currentFile, cur, log,
                 io, lastOpen, gErrorIgnoreLevel, ioFault>>

\* merge_chains, lines 767-788: the next chain of the fixed order; a null
\* chain is passed over, mergeTChain throws when TChain::Merge returns 0, a
\* merged chain is deleted.
MergeChain ==
  /\ pc = "mergechains"
  /\ LET name == MergeOrder[out.merged + 1]
         last == out.merged + 1 = Len(MergeOrder) IN
     IF ~chains[name].exists
       THEN /\ out' = [out EXCEPT !.merged = @ + 1]
            /\ pc' = IF last THEN "count" ELSE "mergechains"
            /\ UNCHANGED <<error, currentFile, ioFault, chains>>
       ELSE \E merged \in {0, 1} :
              /\ ioFault' = (ioFault \/ merged = 0)
              /\ IF mergeTChain(merged) # ""
                   THEN /\ Throw(mergeTChain(merged))
                        /\ UNCHANGED <<out, chains>>
                   ELSE /\ out' = [out EXCEPT !.merged = @ + 1,
                                     !.materialized = Append(@, name),
                                     !.trees[name] =
                                       [present |-> TRUE,
                                        recs |-> out.trees[name].recs
                                                   \o MergedRecords(chains[name], name)]]
                        /\ chains' = IF ReleasedAfterMerge(name)
                                       THEN [chains EXCEPT ![name] = NullChain]
                                       ELSE chains
                        /\ pc' = IF last THEN "count" ELSE "mergechains"
                        /\ UNCHANGED <<error, currentFile>>
  /\ UNCHANGED <<inputVars, filesIn, firstFile, fileMetaData, firstPreg,
                 branchNames, fileFormatVersion, parameterSetBlobs,
                 processHistories, moduleDescriptions, inTokens, cur, log, io,
                 lastOpen, gErrorIgnoreLevel>>

\* Line 686.  eventData_ is dereferenced without a test.
CountEvents ==
  /\ pc = "count"
  /\ IF chains["Events"].exists
       THEN /\ out' = [out EXCEPT !.nEvents = GetEntries(chains["Events"])]
            /\ pc' = "index"
       ELSE \/ pc' = "Crashed" /\ out' = out
            \/ \E g \in Garbage :
                 /\ out' = [out EXCEPT !.nEvents = g]
                 /\ pc' = "index"
  /\ UNCHANGED <<inputVars, filesIn, error, sessionVars, currentFile, cur, log,
                 io, lastOpen, gErrorIgnoreLevel, ioFault>>

\* Lines 688-702: an index on each of the three data trees the output has.
BuildIndexes ==
  /\ pc = "index"
  /\ out' = [out EXCEPT !.indexed =
               {p \in {"Events", "LuminosityBlocks", "Runs"} : out.trees[p].present}]
  /\ pc' = "lumis"
  /\ UNCHANGED <<inputVars, filesIn, error, sessionVars, currentFile, cur, log,
                 io, lastOpen, gErrorIgnoreLevel, ioFault>>

\* Faulty variant of the loop: it stops after the first entry.
LumiSectionReports_FirstOnly(recs) ==
  IF recs = <<>> THEN <<>>
  ELSE <<Ev("reportLumiSection", "", recs[1].run, recs[1].id, <<>>, <<>>)>>

\* The loop of lines 717-721: one reportLumiSection for each entry of the
\* auxiliary branch, in order.
LumiSectionReports(recs) ==
  [i \in 1..Len(recs) |->
     Ev("reportLumiSection", "", recs[i].run, recs[i].id, <<>>, <<>>)]

\* Lines 704-721: getTTreeOrThrow on the output's LuminosityBlocks tree,
\* then one reportLumiSection per entry.
ReportLumiSections ==
  /\ pc = "lumis"
  /\ LET t == out.trees["LuminosityBlocks"] IN
     IF getTTreeOrThrow(t.present) # ""
       THEN Throw(getTTreeOrThrow(t.present)) /\ log' = log
       ELSE /\ log' = log \o LumiSectionReports(t.recs)
            /\ pc' = "outclose"
            /\ UNCHANGED <<error, currentFile>>
  /\ UNCHANGED <<inputVars, filesIn, sessionVars, cur, out, io, lastOpen,
                 gErrorIgnoreLevel, ioFault>>

\* Lines 722-724; merge and FastMerge return.
ReportOutputFileClosed ==
  /\ pc = "outclose"
  /\ log' = log \o <<Ev("overrideContributingInputs", fileOut, out.token, 0,
                        <<>>, inTokens),
                     Ev("overrideEventsWritten", fileOut, out.token, out.nEvents,
                        <<>>, <<>>),
                     Ev("outputFileClosed", fileOut, out.token, 0, <<>>, <<>>)>>
  /\ pc' = "Done"
  /\ UNCHANGED <<inputVars, filesIn, error, sessionVars, currentFile, cur, out,
                 io, lastOpen, gErrorIgnoreLevel, ioFault>>

Next ==
  \/ ValidateArguments
  \/ OpenInputFile
  \/ ReadProductRegistry
  \/ ReportInputFileOpened
  \/ ReadFileFormatVersion
  \/ CheckFirstFile
  \/ CheckLaterFile
  \/ ReadDictionaries
  \/ RecordFile
  \/ AddToChains
  \/ ReportInputFileClosed
  \/ OpenOutputFile
  \/ ReportOutputFileOpened
  \/ WriteFileMetaData
  \/ MergeChain
  \/ CountEvents
  \/ BuildIndexes
  \/ ReportLumiSections
  \/ ReportOutputFileClosed

Spec == Init /\ [][Next]_vars

\* FastMerge is one sequential call: a step that can be taken is taken.
LiveSpec == Spec /\ WF_vars(Next)

Terminal == pc \in {"Done", "Failed", "Crashed"}

(***************************************************************************)
(* Vocabulary of the properties                                            *)
(***************************************************************************)
\* The files operator() has run to its end for, in input-list order.
Accepted ==
  LET c == SelectEv(log, "inputFileClosed") IN [i \in 1..Len(c) |-> c[i].file]

TreeRecords(f, p) ==
  IF p \in DOMAIN File(f).trees THEN File(f).trees[p] ELSE <<>>

\* No null pointer has been dereferenced on the way to a Done state.
Defined ==
  /\ fileMetaData # NoFile
  /\ chains["EventMetaData"].exists \/ out.trees["EventMetaData"].present
  /\ chains["Events"].exists

\* The i-th input file is still inside operator(), not later than block b.
Within(i, blocks) == i = Len(filesIn) /\ pc \in blocks

Opened(i) == File(filesIn[i]).usable

\* The i-th input file comes after the first accepted one.
Later(i) == firstFile # NoFile /\ \E j \in 1..(i - 1) : Opened(j)

\* The i-th input file is the first of the list that could be opened.
IsFirstOpened(i) == Opened(i) /\ \A j \in 1..(i - 1) : ~Opened(j)

\* The registry and the format version of the file can be read.
Readable(f) ==
  f.hasMetaTree /\ {"ProductRegistry", "FileFormatVersion"} \subseteq f.fields

\* The blocks of operator() up to the tests of compatibility.
UpToCheck == {"registry", "report", "version", "check"}

\* The i-th input file has been reconciled with the session's registry: it
\* was opened and operator() is past the tests of it (past the read of the
\* registry for the first file).
Reconciled(i) ==
  /\ Opened(i)
  /\ ~Within(i, IF IsFirstOpened(i) THEN {"registry"} ELSE UpToCheck)

\* The files openTFile returned a null pointer for, in input-list order.
Skipped ==
  LET c == SelectEv(log, "reportSkippedFile") IN [i \in 1..Len(c) |-> c[i].file]

\* Every file of the list reached so far has been accepted or skipped.
AllProcessed == Len(Accepted) + Len(Skipped) = Len(filesIn)

\* Something has been done to the output file.
OutputTouched ==
  \/ out.open
  \/ Len(SelectSeq(io, LAMBDA x : x = "TFile::Open")) > Len(filesIn)
  \/ SelectEv(log, "outputFileOpened") # <<>>

\* The blocks of operator() after openTFile.
InOperator ==
  {"registry", "report", "version", "check", "dicts", "record", "chains", "close"}

\* The blocks of merge() after merge_chains.
AfterMergeChains == {"count", "index", "lumis", "outclose", "Done"}

PositionIn(seq, x) == CHOOSE i \in 1..Len(seq) : seq[i] = x

\* The elements of seq come in the order of the sequence order, none twice.
InOrderOf(seq, order) ==
  \A i, j \in 1..Len(seq) :
    i < j => PositionIn(order, seq[i]) < PositionIn(order, seq[j])

\* The three maps of the session.
Dictionaries == <<moduleDescriptions, processHistories, parameterSetBlobs>>

\* Every descriptor carries one process-configuration ID and one
\* parameter-set ID.
OneIDPerBranch(reg) ==
  \A b \in DOMAIN reg :
    Cardinality(reg[b].pcids) = 1 /\ Cardinality(reg[b].psids) = 1

\* The inputFileOpened calls made so far, in order.
OpenedReports == SelectEv(log, "inputFileOpened")

\* The file opens and its registry can be read.
RegistryRead(f) ==
  f.usable /\ f.hasMetaTree /\ "ProductRegistry" \in f.fields

\* The names of the Primary branches of a file, in registry order.
PrimaryBranches(f) ==
  SelectSeq(BranchOrder, LAMBDA b : b \in DOMAIN f.reg /\ f.reg[b].kind = "InEvent")

\* The first file of the list whose registry has been read, if any.
BaselineIndex ==
  {i \in 1..Len(filesIn) :
     IsFirstOpened(i) /\ RegistryRead(File(filesIn[i])) /\ ~Within(i, {"registry"})}

\* The map that inserting the maps of the files, in order, into an empty
\* map gives when an entry that is there is never replaced: each key of a
\* file, with the value of the first file that has the key.
InsertIfAbsentUnion(files, field) ==
  [k \in UNION {DOMAIN File(files[i])[field] : i \in 1..Len(files)} |->
     LET i == CHOOSE i \in 1..Len(files) :
                /\ k \in DOMAIN File(files[i])[field]
                /\ \A j \in 1..(i - 1) : k \notin DOMAIN File(files[j])[field]
     IN File(files[i])[field][k]]

\* TChain::Merge has failed on a chain of the session.
MaterializationFailed == out.open /\ ioFault

\* The positions in the log of the calls of one kind, in order.
PositionsOf(e) ==
  LET RECURSIVE from(_)
      from(k) == IF k > Len(log) THEN <<>>
                 ELSE IF log[k].ev = e THEN <<k>> \o from(k + 1)
                 ELSE from(k + 1)
  IN from(1)

\* The files of the segments of a chain, in order.
SegmentFiles(chain) == [i \in 1..Len(chain.segs) |-> chain.segs[i].file]

\* The i-th input file lacks a tree the first file has.
LacksBaselineTree(i) ==
  DOMAIN File(firstFile).trees \ DOMAIN File(filesIn[i]).trees # {}

\* The count given to the last overrideEventsWritten.
EventsWritten ==
  LET w == SelectEv(log, "overrideEventsWritten") IN
  IF w = <<>> THEN -1 ELSE w[Len(w)].n

(***************************************************************************)
(* Properties                                                              *)
(***************************************************************************)
\* C1: FastMerge with an empty output path or an empty input list fails with
\* BadArgument, and nothing has happened before the failure: no catalogue
\* lookup, no file open, no call on the JobReport.
C1_BadArgumentBeforeAnyIO ==
  (pc # "start" /\ (fileOut = "" \/ noInput)) =>
     /\ pc = "Failed" /\ error = "BadArgument"
     /\ io = <<>> /\ log = <<>> /\ filesIn = <<>>

C1_Witness ==
  pc = "Failed" /\ error = "BadArgument" /\ noInput /\ fileOut = "out.root"

\* C2: after a successful merge every partition of the output holds the
\* records of the accepted input files, file after file in input-list
\* order, each file's records in their order, and nothing else.  (Stated
\* for the runs in which no null pointer was dereferenced.)
C2_OutputIsConcatenationOfInputs ==
  (pc = "Done" /\ Defined) =>
     \A p \in Partitions :
       out.trees[p].recs =
         Flatten([i \in 1..Len(Accepted) |-> TreeRecords(Accepted[i], p)])

\* C3: after a successful merge every record of every partition of every
\* accepted input file is in the output, also when the first accepted file
\* has no such partition.  (Stated for the runs in which no null pointer
\* was dereferenced.)
C3_NoRecordIsLost ==
  (pc = "Done" /\ Defined) =>
     \A i \in 1..Len(Accepted) : \A p \in DOMAIN File(Accepted[i]).trees :
       Range(File(Accepted[i]).trees[p]) \subseteq Range(out.trees[p].recs)

\* C4: under either policy, once operator() has compared a file that comes
\* after the first accepted one, whose format version can be read and is
\* not the first accepted file's, the merge has failed with MismatchedInput;
\* so merge() is never entered.
C4_OtherFormatVersionFails ==
  \A i \in 1..Len(filesIn) :
    LET f == File(filesIn[i]) IN
    ( /\ Later(i) /\ Opened(i) /\ f.hasMetaTree
      /\ {"ProductRegistry", "FileFormatVersion"} \subseteq f.fields
      /\ f.ffv # fileFormatVersion
      /\ ~Within(i, {"registry", "report", "version", "check"}) )
    => (pc = "Failed" /\ error = "MismatchedInput" /\ ~out.open)

C4_Witness ==
  /\ pc = "Failed" /\ error = "MismatchedInput" /\ beStrict
  /\ filesIn = <<"A", "A", "V">>
  /\ RegistryDifferences(firstPreg, cur.reg, matchMode) = {}

\* C5: a first file with a format version below 1 is rejected with
\* MismatchedInput under either policy before any chain is made and before
\* any file is added to a chain; so the format version of the session is at
\* least 1 whenever a first file has been accepted.
C5_BaselineVersionAtLeastOne ==
  /\ firstFile # NoFile => fileFormatVersion >= 1
  /\ (fileMetaData # NoFile /\ fileFormatVersion < 1) =>
       /\ pc = "Failed" /\ error = "MismatchedInput" /\ firstFile = NoFile
       /\ \A p \in Partitions : chains[p] = NullChain

C5_Witness ==
  /\ pc = "Failed" /\ error = "MismatchedInput" /\ ~beStrict
  /\ filesIn = <<"Z">> /\ fileFormatVersion = 0

\* C6: under Strict policy the merge of a file with itself, the file being
\* complete and carrying one ID of each kind per branch, ends in Done unless
\* the storage layer fails a write; the count of events written is twice
\* the file's, and registry, maps and format version written are the file's.
C6_MergeWithItself ==
  \A n \in FileNames :
    LET f == File(n) IN
    ( /\ beStrict /\ filesIn = <<n, n>>
      /\ Complete(f) /\ OneIDPerBranch(f.reg)
      /\ Terminal /\ ~ioFault )
    => /\ pc = "Done"
       /\ EventsWritten = 2 * Len(f.trees["Events"])
       /\ Len(out.trees["Events"].recs) = 2 * Len(f.trees["Events"])
       /\ out.meta = [written |-> TRUE, ffv |-> f.ffv, reg |-> f.reg,
                      md |-> f.md, ph |-> f.ph, ps |-> f.ps]

C6_Witness == pc = "Done" /\ beStrict /\ filesIn = <<"B", "B">>

\* C7: after a Permissive merge of one or more accepted files the keys of
\* the parameter-set map written are the union of the keys of the accepted
\* files' parameter-set maps.
C7_ParameterSetKeysAreTheUnion ==
  (pc = "Done" /\ ~beStrict /\ Len(Accepted) >= 1) =>
     /\ DOMAIN out.meta.ps = UNION {DOMAIN File(n).ps : n \in Range(Accepted)}
     /\ DOMAIN parameterSetBlobs = DOMAIN out.meta.ps

C7_Witness ==
  /\ pc = "Done" /\ ~beStrict /\ Accepted = <<"A", "P", "B">>
  /\ DOMAIN out.meta.ps = {"s1", "s2"}

\* The opened files read so far can be merged with each other: complete,
\* the same registry and format version, and fit for the policy.
OpenedFilesAgree ==
  \A i, j \in 1..Len(filesIn) :
    (Opened(i) /\ Opened(j)) =>
       /\ Complete(File(filesIn[i]))
       /\ File(filesIn[i]).reg = File(filesIn[j]).reg
       /\ File(filesIn[i]).ffv = File(filesIn[j]).ffv
       /\ beStrict => OneIDPerBranch(File(filesIn[i]).reg)

\* C8: with skipMissing, when some files of the list cannot be opened and
\* the others can (and can be merged with each other), the merge does not
\* fail unless the storage layer fails a write; at Done there is one
\* reportSkippedFile per file that could not be opened and no
\* inputFileOpened for it, and the count of events written is the sum of
\* the event counts of the opened files.
C8_SkipMissingFiles ==
  ( /\ skipMissing /\ ~ioFault /\ OpenedFilesAgree
    /\ \E i \in 1..Len(filesIn) : Opened(i)
    /\ \E i \in 1..Len(filesIn) : ~Opened(i) )
  => /\ pc \notin {"Failed", "Crashed"}
     /\ pc = "Done" =>
          /\ [i \in 1..Len(SelectEv(log, "reportSkippedFile")) |->
                SelectEv(log, "reportSkippedFile")[i].file]
               = SelectSeq(filesIn, LAMBDA n : ~File(n).usable)
          /\ [i \in 1..Len(SelectEv(log, "inputFileOpened")) |->
                SelectEv(log, "inputFileOpened")[i].file]
               = SelectSeq(filesIn, LAMBDA n : File(n).usable)
          /\ EventsWritten =
               SeqSum([i \in 1..Len(filesIn) |->
                         IF Opened(i) THEN Len(File(filesIn[i]).trees["Events"])
                                      ELSE 0])

C8_Witness ==
  pc = "Done" /\ skipMissing /\ filesIn = <<"A", "E", "B">> /\ EventsWritten = 3

\* C9: openTFile on a file that cannot be opened throws
\* LogicalFileNameNotFound for an empty name and RootFailure for any other
\* when noThrow is not set, and returns a null pointer without throwing when
\* it is set, the empty name included; a usable file yields its handle.
C9_OpenOutcome ==
  lastOpen.result # "" =>
    /\ lastOpen.usable => lastOpen.result = "handle"
    /\ (~lastOpen.usable /\ lastOpen.noThrow) =>
         (lastOpen.result = "absent" /\ error = "")
    /\ (~lastOpen.usable /\ ~lastOpen.noThrow /\ lastOpen.filename = "") =>
         (lastOpen.result = "LogicalFileNameNotFound"
            /\ pc = "Failed" /\ error = "LogicalFileNameNotFound")
    /\ (~lastOpen.usable /\ ~lastOpen.noThrow /\ lastOpen.filename # "") =>
         (lastOpen.result = "RootFailure"
            /\ pc = "Failed" /\ error = "RootFailure")

C9_Witness ==
  /\ lastOpen.result = "LogicalFileNameNotFound" /\ lastOpen.filename = ""
  /\ filesIn = <<"A", "E">>

\* C10: an opened input file whose MetaData tree lacks one of the five
\* branches is never accepted and never added to a chain: the merge fails,
\* and with BadInputFile when the registry or the format version is the
\* branch that is lacking.
C10_MissingMetadataFieldFails ==
  /\ \A p \in Partitions : \A k \in 1..Len(chains[p].segs) :
       File(chains[p].segs[k].file).fields = Fields
  /\ firstFile # NoFile => File(firstFile).fields = Fields
  /\ \A i \in 1..Len(filesIn) :
       LET f == File(filesIn[i]) IN
       ( /\ Opened(i) /\ f.hasMetaTree /\ f.fields # Fields
         /\ ~Within(i, {"registry", "report", "version", "check", "dicts"}) )
       => /\ pc = "Failed"
          /\ ~({"ProductRegistry", "FileFormatVersion"} \subseteq f.fields)
               => error = "BadInputFile"

C10_Witness ==
  /\ pc = "Failed" /\ error = "BadInputFile"
  /\ filesIn = <<"A", "Nps">> /\ firstFile = "A"

\* C11: under Strict policy a first file is accepted only when every branch
\* of its registry carries one process-configuration ID and one
\* parameter-set ID, and a first file with a branch that does not makes the
\* merge fail with MismatchedInput; under Permissive policy the IDs of the
\* first file are not counted, and such a file, complete otherwise, does
\* not make the merge fail.
C11_StrictFirstFileCardinality ==
  /\ (beStrict /\ firstFile # NoFile) => OneIDPerBranch(File(firstFile).reg)
  /\ \A i \in 1..Len(filesIn) :
       LET f == File(filesIn[i]) IN
       ( /\ IsFirstOpened(i) /\ Readable(f) /\ f.ffv >= 1
         /\ ~OneIDPerBranch(f.reg) /\ ~Within(i, UpToCheck) )
       => IF beStrict
            THEN pc = "Failed" /\ error = "MismatchedInput" /\ firstFile = NoFile
            ELSE (i = Len(filesIn) /\ Complete(f) /\ ~ioFault)
                   => pc \notin {"Failed", "Crashed"}

C11_Witness ==
  /\ pc = "Failed" /\ error = "MismatchedInput" /\ beStrict
  /\ filesIn = <<"D">> /\ fileFormatVersion = 1

C13_BranchSetIsTheFirstFiles ==
  /\ \A i \in 1..Len(filesIn) :
       (IsFirstOpened(i) /\ Readable(File(filesIn[i])) /\ Reconciled(i))
         => DOMAIN firstPreg = DOMAIN File(filesIn[i]).reg
  /\ firstFile # NoFile => DOMAIN firstPreg = DOMAIN File(firstFile).reg
  /\ \A i \in 1..Len(filesIn) :
       LET f == File(filesIn[i]) IN
       ( /\ Later(i) /\ Opened(i) /\ Readable(f) /\ ~Within(i, UpToCheck)
         /\ DOMAIN f.reg \ DOMAIN File(firstFile).reg # {} )
       => (pc = "Failed" /\ error = "MismatchedInput")

C13_Witness ==
  /\ pc = "Failed" /\ error = "MismatchedInput" /\ ~beStrict
  /\ filesIn = <<"A", "X">> /\ DOMAIN firstPreg = {"b1", "b2"}

\* C14: in every step, a key of one of the three maps of the session stays
\* in the map with its value; and the maps are left as they are by a later
\* file that was accepted before (the same maps inserted once more).
C14_DictionaryEntriesAreKept ==
  [][ /\ \A d \in 1..3 : \A k \in DOMAIN Dictionaries[d] :
           k \in DOMAIN Dictionaries'[d] /\ Dictionaries'[d][k] = Dictionaries[d][k]
      /\ ( pc = "record" /\ ~cur.first
           /\ cur.fname \in Range(Accepted) )
         => Dictionaries' = Dictionaries ]_vars

C14_Witness ==
  /\ pc = "chains" /\ filesIn = <<"A", "B">>
  /\ moduleDescriptions = [m1 |-> "v1", m2 |-> "v1"]
  /\ processHistories = [h1 |-> "v1", h2 |-> "v1"]
  /\ parameterSetBlobs = [s1 |-> "v1", s2 |-> "v1"]

\* C15 (as claimed): the chains are materialized once each in the order
\* Runs, RunMetaData, LuminosityBlocks, LuminosityBlockMetaData,
\* EventMetaData, Events.
C15_MaterializedDataBeforeMetadata ==
  /\ InOrderOf(out.materialized,
               <<"Runs", "RunMetaData", "LuminosityBlocks",
                 "LuminosityBlockMetaData", "EventMetaData", "Events">>)
  /\ pc \in AfterMergeChains =>
       \A p \in Partitions : chains[p].exists => p \in Range(out.materialized)

\* C15 (amended): at the end of merge_chains every chain there is has been
\* materialized, once, and the chains are materialized in the order
\* RunMetaData, Runs, LuminosityBlockMetaData, LuminosityBlocks,
\* EventMetaData, Events.
C15_MaterializedOnceMetadataFirst ==
  /\ InOrderOf(out.materialized,
               <<"RunMetaData", "Runs", "LuminosityBlockMetaData",
                 "LuminosityBlocks", "EventMetaData", "Events">>)
  /\ \A p \in Partitions :
       /\ out.trees[p].present <=> p \in Range(out.materialized)
       /\ (pc \in AfterMergeChains /\ chains[p].exists)
            => p \in Range(out.materialized)
       /\ (pc \in AfterMergeChains /\ firstFile # NoFile
             /\ p \in DOMAIN File(firstFile).trees)
            => p \in Range(out.materialized)

C15_Witness ==
  /\ pc = "Done"
  /\ out.materialized =
       <<"RunMetaData", "Runs", "LuminosityBlockMetaData", "LuminosityBlocks",
         "EventMetaData", "Events">>

\* C16: an index has been built only when every chain there is has been
\* materialized, and only on a tree that has been materialized.
C16_IndexAfterAllChains ==
  out.indexed # {} =>
    /\ out.indexed \subseteq Range(out.materialized)
    /\ \A p \in Partitions :
         /\ chains[p].exists => p \in Range(out.materialized)
         /\ (firstFile # NoFile /\ p \in DOMAIN File(firstFile).trees)
              => p \in Range(out.materialized)

C16_Witness ==
  /\ pc = "lumis" /\ out.indexed = {"Events", "LuminosityBlocks", "Runs"}
  /\ Len(out.materialized) = 6

\* C17: outputFileOpened is reported before the metadata and any chain is
\* written; at Done the last three reports are overrideContributingInputs,
\* overrideEventsWritten and outputFileClosed, the contributing inputs are
\* the tokens of the accepted files in input-list order, and the count of
\* events written is the number of entries of the Events tree written.
C17_OutputNotifications ==
  /\ (out.meta.written \/ out.materialized # <<>>)
       => SelectEv(log, "outputFileOpened") # <<>>
  /\ pc = "Done" =>
       /\ Len(log) >= 3
       /\ log[Len(log)].ev = "outputFileClosed"
       /\ log[Len(log) - 1].ev = "overrideEventsWritten"
       /\ log[Len(log) - 2].ev = "overrideContributingInputs"
       /\ Len(SelectEv(log, "outputFileClosed")) = 1
       /\ log[Len(log) - 2].toks =
            [i \in 1..Len(Accepted) |-> SelectEv(log, "inputFileClosed")[i].tok]
       /\ \A i \in 1..Len(Skipped) :
            \A t \in Range(log[Len(log) - 2].toks) :
              \A k \in 1..Len(log) :
                (log[k].ev = "inputFileOpened" /\ log[k].tok = t)
                  => log[k].file # Skipped[i]
       /\ EventsWritten = Len(out.trees["Events"].recs)

\* C18: the output file is touched only when every file of the list has
\* been accepted or, under skipMissing, skipped; a run that fails on an
\* input file has not opened the output file and has not reported
\* outputFileOpened.
C18_OutputOnlyAfterAllInputs ==
  /\ OutputTouched => (AllProcessed /\ (Skipped # <<>> => skipMissing))
  /\ (pc = "Failed" /\ ~AllProcessed) => ~OutputTouched

C18_Witness ==
  /\ pc = "Failed" /\ error = "MismatchedInput" /\ beStrict
  /\ filesIn = <<"A", "T">> /\ ~AllProcessed /\ ~OutputTouched

\* C19: an exception ends the call: the run is Failed with the category
\* thrown, and no step follows, no open of a later file, no retry, no
\* merge(); an open that fails ends the call unless it is the open of an
\* input file under skipMissing, which is passed over.
C19_FirstErrorEndsTheCall ==
  /\ [](error # "" <=> pc = "Failed")
  /\ [][pc # "Failed"]_vars
  /\ []( /\ lastOpen.result \notin {"", "handle", "absent"}
              => (pc = "Failed" /\ error = lastOpen.result)
         /\ lastOpen.result = "absent"
              => (skipMissing /\ pc = "loop" /\ error = ""
                    /\ Skipped # <<>> /\ Skipped[Len(Skipped)] = filesIn[Len(filesIn)]) )

C19_Witness ==
  /\ pc = "Failed" /\ error = "RootFailure" /\ ~skipMissing
  /\ filesIn = <<"A", "M">> /\ ~OutputTouched

\* C20 (as claimed): between two input files, and after a failure, the
\* session holds no handle of an input file.
C20_NoInputHandleBetweenFiles ==
  pc \in {"loop", "Failed"} => (currentFile = NoFile /\ firstFile = NoFile)

\* C20 (amended): the handle of operator() is held inside operator() only
\* and is the handle of the file being processed; the one handle the
\* session keeps from an earlier file is that of the first file accepted.
\* (A process ended by a null-pointer indirection holds nothing any more.)
C20_OnlyFirstFileIsKept ==
  /\ pc \notin InOperator \cup {"Crashed"} => currentFile = NoFile
  /\ currentFile # NoFile => currentFile = filesIn[Len(filesIn)]
  /\ firstFile # NoFile =>
       \E i \in 1..Len(filesIn) : IsFirstOpened(i) /\ filesIn[i] = firstFile

C20_Witness ==
  /\ pc = "registry" /\ Len(filesIn) = 2
  /\ firstFile = "A" /\ currentFile = "B"

\* C21 (as claimed): inputFileOpened is issued for a file only after the
\* file has passed the tests of its format version and of its registry: a
\* file still before the end of those tests, and a file rejected with
\* MismatchedInput or BadInputFile, has no inputFileOpened.
C21_OpenedOnlyAfterValidation ==
  /\ pc \in UpToCheck => Len(OpenedReports) = Len(Accepted)
  /\ (pc = "Failed" /\ error \in {"MismatchedInput", "BadInputFile"})
       => Len(OpenedReports) = Len(Accepted)

\* C21 (amended): inputFileOpened is issued for a file once its registry
\* has been read and before its format version is read and the tests of
\* compatibility are made.  A file rejected with MismatchedInput, or with
\* BadInputFile for a branch other than the registry, has one
\* inputFileOpened and no inputFileClosed; a file that cannot be opened, has
\* no MetaData tree or no readable registry has none.
C21_OpenedBeforeValidation ==
  /\ pc \in {"registry", "report"} => Len(OpenedReports) = Len(Accepted)
  /\ pc \in InOperator \ {"registry", "report"} =>
       /\ Len(OpenedReports) = Len(Accepted) + 1
       /\ OpenedReports[Len(OpenedReports)].file = filesIn[Len(filesIn)]
       /\ OpenedReports[Len(OpenedReports)].tok = cur.token
  /\ (pc = "Failed" /\ error = "MismatchedInput") =>
       Len(OpenedReports) = Len(Accepted) + 1
  /\ (pc = "Failed" /\ error = "BadInputFile") =>
       Len(OpenedReports) = Len(Accepted) +
         (IF "ProductRegistry" \in File(filesIn[Len(filesIn)]).fields
            THEN 1 ELSE 0)
  /\ (pc = "Failed" /\ ~OutputTouched /\ filesIn # <<>>
        /\ ~RegistryRead(File(filesIn[Len(filesIn)]))) =>
       Len(OpenedReports) = Len(Accepted)

C21_Witness ==
  /\ pc = "Failed" /\ error = "MismatchedInput" /\ filesIn = <<"A", "T">>
  /\ Len(OpenedReports) = 2 /\ Len(Accepted) = 1
  /\ OpenedReports[2].file = "T"

\* C22 (as claimed): the branch-name list is captured once, from the first
\* file, and every inputFileOpened and the outputFileOpened carry it.
C22_EveryReportCarriesTheCapturedList ==
  \A k \in 1..Len(log) :
    log[k].ev \in {"inputFileOpened", "outputFileOpened"} =>
      log[k].names = branchNames

\* C22 (amended): the branch-name list of the session is that of the first
\* file whose registry was read, whatever files follow; the inputFileOpened
\* of a file carries the names of the Primary branches of that file, which
\* for the first file is the list of the session; the outputFileOpened
\* carries the list of the session.
C22_CapturedOnceEachFileReportsItsOwn ==
  /\ branchNames = IF BaselineIndex = {} THEN <<>>
                   ELSE PrimaryBranches(File(filesIn[CHOOSE i \in BaselineIndex : TRUE]))
  /\ \A k \in 1..Len(OpenedReports) :
       OpenedReports[k].names = PrimaryBranches(File(OpenedReports[k].file))
  /\ OpenedReports # <<>> => OpenedReports[1].names = branchNames
  /\ \A k \in 1..Len(log) :
       log[k].ev = "outputFileOpened" => log[k].names = branchNames

C22_Witness ==
  /\ pc = "version" /\ filesIn = <<"A", "X">>
  /\ Len(OpenedReports) = 2
  /\ OpenedReports[1].names = <<"b1">> /\ OpenedReports[2].names = <<"b1", "b3">>
  /\ branchNames = <<"b1">>

\* C23: whatever the input list and the two flags, the call ends in Done or
\* in Failed, and takes no step from there: no open, no report, no write.
C23_EndsInDoneOrFailed ==
  /\ <>(pc \in {"Done", "Failed"})
  /\ [][pc \notin {"Done", "Failed"}]_vars

\* C24: the baseline is that of the first file of the list that could be
\* opened, whatever absent files were passed over before it: the format
\* version, the MetaData tree, the branches of the registry with their data
\* types, the entries of the three maps and the chains are those of that
\* file; operator() takes that file as the first and every file after it as
\* a later one.
C24_BaselineIsTheFirstFileRead ==
  /\ pc \in InOperator => (cur.first <=> IsFirstOpened(Len(filesIn)))
  /\ firstFile # NoFile =>
       \E i \in 1..Len(filesIn) :
         LET f == File(filesIn[i]) IN
         /\ IsFirstOpened(i) /\ firstFile = filesIn[i]
         /\ \A j \in 1..(i - 1) : filesIn[j] \in Range(Skipped)
         /\ fileMetaData = filesIn[i] /\ fileFormatVersion = f.ffv
         /\ DOMAIN firstPreg = DOMAIN f.reg
         /\ \A b \in DOMAIN f.reg :
              /\ firstPreg[b].type = f.reg[b].type
              /\ firstPreg[b].kind = f.reg[b].kind
              /\ f.reg[b].pcids \subseteq firstPreg[b].pcids
              /\ f.reg[b].psids \subseteq firstPreg[b].psids
         /\ \A k \in DOMAIN f.md : moduleDescriptions[k] = f.md[k]
         /\ \A k \in DOMAIN f.ph : processHistories[k] = f.ph[k]
         /\ \A k \in DOMAIN f.ps : parameterSetBlobs[k] = f.ps[k]
         /\ pc \in InOperator \cup {"loop"} =>
              \A p \in Partitions :
                /\ chains[p].exists <=> p \in DOMAIN f.trees
                /\ chains[p].segs # <<>> => chains[p].segs[1].file = filesIn[i]

C24_Witness ==
  /\ pc = "loop" /\ skipMissing /\ filesIn = <<"M", "P", "A">>
  /\ firstFile = "P" /\ Accepted = <<"P", "A">>
  /\ firstPreg["b1"].pcids = {"p1", "p2"}

\* C25: the step of operator() for an input file that cannot be opened,
\* under skipMissing, leaves the session as it was (registry, format
\* version, branch names, the three maps, the chains, the input tokens, the
\* first file), raises no error and does nothing to the output; it makes
\* one reportSkippedFile call for that file and the loop goes on.
C25_SkippedFileChangesNothing ==
  [][ (/\ skipMissing
       /\ Len(filesIn') = Len(filesIn) + 1
       /\ ~File(filesIn'[Len(filesIn')]).usable)
      => /\ UNCHANGED <<sessionVars, error, out, currentFile, pc>>
         /\ pc' = "loop"
         /\ log' = Append(log, Ev("reportSkippedFile", filesIn'[Len(filesIn')],
                                  0, 0, <<>>, <<>>)) ]_vars

C25_Witness ==
  /\ pc = "loop" /\ skipMissing /\ filesIn = <<"A", "M">>
  /\ firstFile = "A" /\ Skipped = <<"M">> /\ Len(inTokens) = 1
  /\ log[Len(log)].ev = "reportSkippedFile"

\* C26: under Strict policy, once there is a baseline every branch of the
\* session's registry carries one process-configuration ID and one
\* parameter-set ID, and so does every branch of the registry of every file
\* accepted so far and of the file that has passed the tests; a later file
\* with a branch that carries none or several is not accepted: the merge
\* fails with MismatchedInput.
C26_StrictMergeKeepsOneIDPerBranch ==
  beStrict =>
    /\ firstFile # NoFile => OneIDPerBranch(firstPreg)
    /\ \A i \in 1..Len(Accepted) : OneIDPerBranch(File(Accepted[i]).reg)
    /\ pc \in {"dicts", "record", "chains", "close"} =>
         OneIDPerBranch(File(cur.fname).reg)
    /\ \A i \in 1..Len(filesIn) :
         LET f == File(filesIn[i]) IN
         ( /\ Later(i) /\ Opened(i) /\ Readable(f) /\ ~Within(i, UpToCheck)
           /\ ~OneIDPerBranch(f.reg) )
         => (pc = "Failed" /\ error = "MismatchedInput")

C26_Witness ==
  /\ pc = "Failed" /\ error = "MismatchedInput" /\ beStrict
  /\ filesIn = <<"A", "D">> /\ firstFile = "A" /\ Accepted = <<"A">>
  /\ OneIDPerBranch(firstPreg)

C28_FailedMaterializationAbortsTheMerge ==
  MaterializationFailed =>
    /\ pc = "Failed" /\ error = "RootFailure"
    /\ chains[MergeOrder[out.merged + 1]].exists
    /\ \A j \in (out.merged + 1)..Len(MergeOrder) :
         /\ MergeOrder[j] \notin Range(out.materialized)
         /\ ~out.trees[MergeOrder[j]].present
    /\ out.indexed = {}
    /\ \A k \in 1..Len(log) :
         log[k].ev \notin {"overrideContributingInputs", "overrideEventsWritten",
                           "outputFileClosed", "reportLumiSection"}
    /\ Len(SelectEv(log, "outputFileOpened")) = 1

C28_Witness ==
  /\ MaterializationFailed /\ filesIn = <<"A", "B">>
  /\ out.materialized = <<"RunMetaData", "Runs">>
  /\ out.meta.written /\ ~out.trees["Events"].present

\* C29: the count given to overrideEventsRead right before the
\* inputFileClosed of a file is the number of records of the Events tree of
\* that file, and after a merge that succeeded the counts read add up to
\* the count given to overrideEventsWritten.
C29_EventsReadArePrimaryRecords ==
  /\ \A k \in 1..Len(log) :
       log[k].ev = "inputFileClosed" =>
         /\ k > 1 /\ log[k - 1].ev = "overrideEventsRead"
         /\ log[k - 1].tok = log[k].tok
         /\ log[k - 1].n = Len(TreeRecords(log[k].file, "Events"))
  /\ pc = "Done" =>
       LET r == SelectEv(log, "overrideEventsRead") IN
       SeqSum([i \in 1..Len(r) |-> r[i].n]) = EventsWritten

\* C30: whenever no input file is being processed (between two files, in
\* merge(), after the call has returned or failed) each inputFileOpened has
\* been followed by one overrideEventsRead and then one inputFileClosed for
\* its token, before the next inputFileOpened.
C30_OpenedAndClosedArePaired ==
  pc \notin InOperator \cup {"Crashed"} =>
    LET o == PositionsOf("inputFileOpened")
        r == PositionsOf("overrideEventsRead")
        c == PositionsOf("inputFileClosed") IN
    /\ Len(o) = Len(c) /\ Len(o) = Len(r)
    /\ \A k \in 1..Len(o) :
         /\ o[k] < r[k] /\ r[k] < c[k]
         /\ log[r[k]].tok = log[o[k]].tok /\ log[c[k]].tok = log[o[k]].tok
         /\ k < Len(o) => c[k] < o[k + 1]

\* C31: the output file is opened, reported and written only after some
\* input file has been accepted; when skipMissing is set and no file of the
\* list could be opened, the call goes no further than the loop but to fail
\* with an error, and no metadata is written.
C31_FinalizeNeedsABaseline ==
  /\ OutputTouched => Len(Accepted) >= 1
  /\ (skipMissing /\ Len(Skipped) = Len(filesIn) /\ pc \notin {"start", "loop"})
       => (pc = "Failed" /\ error # "" /\ ~out.meta.written)

\* C32: between two input files the chains that exist are those of the trees
\* of the first file, and each of them holds one segment for each accepted
\* file, in the order of the input list; a later file that lacks a tree the
\* first file has is never accepted: operator() does not return for it, and
\* when the file differs from the first in its trees only the call fails
\* with RootFailure.  (The process can be ended instead only by the
\* indirection through a null eventMetaData_ that comes before the
\* additions.)
C32_ChainsAreConsistent ==
  /\ (pc = "loop" /\ firstFile # NoFile) =>
       \A p \in Partitions :
         /\ chains[p].exists <=> p \in DOMAIN File(firstFile).trees
         /\ chains[p].exists => SegmentFiles(chains[p]) = Accepted
  /\ \A i \in 1..Len(filesIn) :
       (Later(i) /\ Opened(i) /\ LacksBaselineTree(i)) =>
         LET f == File(filesIn[i]) IN
         /\ i = Len(filesIn)
         /\ pc \in InOperator \cup {"Failed", "Crashed"}
         /\ Len(Accepted) + Len(Skipped) < Len(filesIn)
         /\ ( /\ pc = "Failed" /\ Readable(f) /\ f.fields = Fields
              /\ f.ffv = fileFormatVersion /\ f.reg = File(firstFile).reg )
            => error = "RootFailure"
         /\ pc = "Crashed" => ~chains["EventMetaData"].exists

C32_Witness ==
  /\ pc = "Failed" /\ error = "RootFailure" /\ filesIn = <<"A", "L">>
  /\ SegmentFiles(chains["Runs"]) = <<"A", "L">>
  /\ SegmentFiles(chains["LuminosityBlockMetaData"]) = <<"A">>
  /\ Accepted = <<"A">>

\* C33: a tree the first file lacks is optional.  When every file of the
\* list can be read, has the format version, the registry and the trees of
\* the first, and the storage layer does not fail, the call does not fail
\* and the process is not ended, whichever of the six trees are missing:
\* the missing trees have no chain, nothing is written or indexed for them,
\* and the count of events written is that of the Events records merged.
C33_MissingPartitionIsOptional ==
  ( /\ filesIn # <<>> /\ ~ioFault
    /\ \A i \in 1..Len(filesIn) :
         LET f == File(filesIn[i]) IN
         /\ f.usable /\ Readable(f) /\ f.fields = Fields /\ f.ffv >= 1
         /\ f.ffv = File(filesIn[1]).ffv /\ f.reg = File(filesIn[1]).reg
         /\ DOMAIN f.trees = DOMAIN File(filesIn[1]).trees
         /\ beStrict => OneIDPerBranch(f.reg) )
  => /\ pc \notin {"Failed", "Crashed"}
     /\ \A p \in Partitions \ DOMAIN File(filesIn[1]).trees :
          ~chains[p].exists /\ ~out.trees[p].present /\ p \notin out.indexed
     /\ pc = "Done" =>
          EventsWritten = SeqSum([i \in 1..Len(Accepted) |->
                                   Len(TreeRecords(Accepted[i], "Events"))])

\* C34: in merge() the reportLumiSection calls come after the indexes are
\* built and before the three closing reports, none earlier; they are one
\* for each record of the LuminosityBlocks tree of the output, in the order
\* of the records, with the run and the luminosity block of the record, so
\* that a luminosity block held by several accepted files is reported once
\* for each of them.
C34_OneLumiReportPerMergedRecord ==
  LET l == PositionsOf("reportLumiSection")
      recs == out.trees["LuminosityBlocks"].recs IN
  /\ pc \in {"outclose", "Done"} =>
       /\ Len(l) = Len(recs)
       /\ \A i \in 1..Len(l) :
            log[l[i]].tok = recs[i].run /\ log[l[i]].n = recs[i].id
       /\ recs = Flatten([i \in 1..Len(Accepted) |->
                            TreeRecords(Accepted[i], "LuminosityBlocks")])
       /\ "LuminosityBlocks" \in out.indexed
  /\ pc \notin {"outclose", "Done"} => l = <<>>
  /\ \A i \in 1..Len(l) :
       /\ \A k \in Range(PositionsOf("outputFileOpened")) : k < l[i]
       /\ \A k \in 1..Len(log) :
            log[k].ev \in {"overrideContributingInputs", "overrideEventsWritten",
                           "outputFileClosed"} => l[i] < k

C34_Witness ==
  /\ pc = "Done" /\ filesIn = <<"A", "B", "A">>
  /\ Len(PositionsOf("reportLumiSection")) = 3
  /\ log[Len(log) - 3].ev = "reportLumiSection"
  /\ log[Len(log) - 3].tok = 1 /\ log[Len(log) - 4].tok = 2
  /\ log[Len(log)].ev = "outputFileClosed"

\* C35: gErrorIgnoreLevel is kError when openTFile has returned from an open
\* with noThrow set, whether it returned a handle or a null pointer; it is
\* kBreak while TFile::Open runs in such a call and at no other time; an
\* open without noThrow leaves it as it was, during the call and after.
C35_ErrorLevelSetBackAfterTolerantOpen ==
  /\ []( /\ (lastOpen.result # "" /\ lastOpen.noThrow) =>
               /\ lastOpen.result \in {"handle", "absent"}
               /\ lastOpen.during = "kBreak"
               /\ gErrorIgnoreLevel = "kError"
         /\ gErrorIgnoreLevel # "kBreak" )
  /\ [][ (io' = Append(io, "TFile::Open") /\ ~lastOpen'.noThrow) =>
          /\ gErrorIgnoreLevel' = gErrorIgnoreLevel
          /\ lastOpen'.during = gErrorIgnoreLevel ]_vars

C35_Witness ==
  /\ skipMissing /\ pc = "loop" /\ filesIn = <<"A", "M">>
  /\ lastOpen.result = "absent" /\ lastOpen.noThrow
  /\ lastOpen.during = "kBreak" /\ gErrorIgnoreLevel = "kError"

=============================================================================
